---- MODULE Spec2Model ----
(***************************************************************************)
(* The loss layers of utils/layer.py (ContentLoss, GetMask, StyleLoss,     *)
(* StyleLossOpsOnBNST, StyleLossAmplifyFreq) as a state machine: one mask  *)
(* layer and one loss layer are constructed, then forward is called on     *)
(* either of them, in any order, with any input of a bounded catalogue.    *)
(*                                                                         *)
(* Tensors are records [shape, data, graph]: data is the row-major list of *)
(* the elements, graph the set of computation graphs the tensor is         *)
(* attached to (empty after detach).  The batch dimension, always 1, is    *)
(* dropped: a feature tensor has shape <<c, h, w>>.  Reals are fixed-point *)
(* integers, Scale units to 1, with the two special values NaN and Inf.    *)
(***************************************************************************)
EXTENDS Integers, Sequences, FiniteSets, TLC

VARIABLES layer, mask, loss, losses, ret

vars == <<layer, mask, loss, losses, ret>>

(* ------------------------------ bounds --------------------------------- *)
MaxC == 2
MaxH == 2
MaxW == 3
MaxPat == 2
Scale == 4

(* stabilization in case denominator is 0: 1e-5, here one fixed-point unit *)
eps == 1

(* ------------------------------ numbers -------------------------------- *)
NaN == 0 - 1000000000
Inf == 0 - NaN

fAdd(a, b) == IF a = NaN \/ b = NaN THEN NaN ELSE a + b

fSub(a, b) == IF a = NaN \/ b = NaN THEN NaN ELSE a - b

fMul(a, b) == IF a = NaN \/ b = NaN THEN NaN ELSE (a * b) \div Scale

fMulInt(a, n) == IF a = NaN THEN NaN ELSE a * n

fDivInt(a, n) == IF a = NaN THEN NaN
                 ELSE IF n = 0 THEN (IF a = 0 THEN NaN ELSE Inf)
                 ELSE a \div n

fDiv(a, b) == IF a = NaN \/ b = NaN THEN NaN
              ELSE IF b = 0 THEN (IF a = 0 THEN NaN ELSE Inf)
              ELSE (a * Scale) \div b

ISqrt(n) == CHOOSE r \in 0..(n + 1) : r * r <= n /\ n < (r + 1) * (r + 1)

fSqrt(a) == IF a = NaN \/ a < 0 THEN NaN ELSE ISqrt(a * Scale)

Sq(a) == fMul(a, a)

(* the sum of s[lo..hi], by halves *)
RECURSIVE fSumOver(_, _, _)
fSumOver(s, lo, hi) ==
    IF lo > hi THEN 0
    ELSE IF lo = hi THEN s[lo]
    ELSE LET mid == (lo + hi) \div 2
         IN  fAdd(fSumOver(s, lo, mid), fSumOver(s, mid + 1, hi))

fSum(s) == fSumOver(s, 1, Len(s))

RECURSIVE Numel(_)
Numel(shape) == IF shape = <<>> THEN 1 ELSE Head(shape) * Numel(Tail(shape))

RECURSIVE SeqMin(_)
SeqMin(s) == IF Len(s) = 1 THEN s[1]
             ELSE LET m == SeqMin(Tail(s)) IN
                  IF s[1] = NaN \/ m = NaN THEN NaN ELSE IF s[1] < m THEN s[1] ELSE m

RECURSIVE SeqMax(_)
SeqMax(s) == IF Len(s) = 1 THEN s[1]
             ELSE LET m == SeqMax(Tail(s)) IN
                  IF s[1] = NaN \/ m = NaN THEN NaN ELSE IF s[1] > m THEN s[1] ELSE m

(* ------------------------------ tensors -------------------------------- *)
(* a function as the table of its values: comparing it computes the table  *)
(* once, where each application would evaluate the defining expression.    *)
(* For the same reason a value used more than once is handed to a local    *)
(* operator as its argument, which is evaluated once.                      *)
Eager(f) == IF f = f THEN f ELSE f

Tensor(shape, data, graph) == [shape |-> shape, data |-> Eager(data), graph |-> graph]

Scalar(v, graph) == Tensor(<<>>, <<v>>, graph)

detach(x) == [x EXCEPT !.graph = {}]

view(x, shape) == [x EXCEPT !.shape = shape]

(* the row-major stride of axis k (1-based) of a shape *)
Stride(shape, k) == Numel(SubSeq(shape, k + 1, Len(shape)))

RECURSIVE SumUpTo(_, _)
SumUpTo(f, k) == IF k = 0 THEN 0 ELSE f[k] + SumUpTo(f, k - 1)

(* torch broadcasting of two shapes of the same rank *)
Broadcastable(s, t) ==
    /\ Len(s) = Len(t)
    /\ \A k \in 1..Len(s) : s[k] = t[k] \/ s[k] = 1 \/ t[k] = 1

BroadcastShape(s, t) == [k \in 1..Len(s) |-> IF s[k] = 1 THEN t[k] ELSE s[k]]

(* the elements of x broadcast to shape: an axis of size 1 is repeated *)
Expand(x, shape) ==
    IF x.shape = shape THEN x.data
    ELSE LET Table(r, so, sx) ==
                Eager([i \in 1..Numel(shape) |->
                    x.data[1 + SumUpTo([k \in 1..r |-> (((i - 1) \div so[k]) % shape[k]) * sx[k]], r)]])
         IN  Table(Len(shape),
                   Eager([k \in 1..Len(shape) |-> Stride(shape, k)]),
                   Eager([k \in 1..Len(shape) |->
                            IF x.shape[k] = 1 THEN 0 ELSE Stride(x.shape, k)]))

(* x * y, elementwise with broadcasting *)
mul(x, y) ==
    LET Product(s, ex, ey) ==
            Tensor(s, [i \in 1..Numel(s) |-> fMul(ex[i], ey[i])], x.graph \cup y.graph)
        Over(s) == Product(s, Expand(x, s), Expand(y, s))
    IN  Over(BroadcastShape(x.shape, y.shape))

(* torch.nn.functional.mse_loss: broadcast, then the mean of the squared differences *)
mse_loss(x, y) ==
    LET Mean(n, ex, ey) ==
            Scalar(fDivInt(fSum(Eager([i \in 1..n |-> Sq(fSub(ex[i], ey[i]))])), n),
                   x.graph \cup y.graph)
        Over(s) == Mean(Numel(s), Expand(x, s), Expand(y, s))
    IN  Over(BroadcastShape(x.shape, y.shape))

(* sample mean and unbiased sample standard deviation of a list of numbers *)
MeanOf(s) == fDivInt(fSum(s), Len(s))

StdOf(s) ==
    LET Deviation(m) ==
            fSqrt(fDivInt(fSum(Eager([i \in 1..Len(s) |-> Sq(fSub(s[i], m))])), Len(s) - 1))
    IN  Deviation(MeanOf(s))

(* the shape with axis d (0-based) removed *)
DropAxis(shape, d) == SubSeq(shape, 1, d) \o SubSeq(shape, d + 2, Len(shape))

(* the elements of x along axis d, at position j (0-based, row-major) of the other axes *)
Lane(x, d, j) ==
    LET Along(s, n) ==
            Eager([v \in 1..n |-> x.data[((j \div s) * n * s) + ((v - 1) * s) + (j % s) + 1]])
    IN  Along(Stride(x.shape, d + 1), x.shape[d + 1])

(* Tensor.std(d) *)
std(x, d) ==
    LET Over(rs) == Tensor(rs, [j \in 1..Numel(rs) |-> StdOf(Lane(x, d, j - 1))], x.graph)
    IN  Over(DropAxis(x.shape, d))

(* the rows of a matrix *)
Row(m, i) == Eager(SubSeq(m.data, (i - 1) * m.shape[2] + 1, i * m.shape[2]))

(* -------------------- external statistic extractors -------------------- *)
(* utils.style_loss and utils.fft_filter are not part of the sources; the  *)
(* definitions of this section follow their interfaces as specified.       *)

(* gram(matrix[C,N]) -> matrix[C,C]: pairwise channel inner products,      *)
(* normalized by the element count                                         *)
gram_matrix(f) ==
    LET Inner(a, b, n) == fSum(Eager([k \in 1..n |-> fMul(a[k], b[k])]))
        Products(c, n, rows) ==
            Tensor(<<c, c>>,
                   [i \in 1..(c * c) |->
                       fDivInt(Inner(rows[((i - 1) \div c) + 1], rows[((i - 1) % c) + 1], n),
                               c * n)],
                   f.graph)
    IN  Products(f.shape[1], f.shape[2], Eager([i \in 1..f.shape[1] |-> Row(f, i)]))

(* stats(matrix[C,N]) -> (mean[C], std[C]), unbiased std *)
BN_mean_and_std(f) ==
    LET c == f.shape[1]
    IN  [mean |-> Tensor(<<c>>, [i \in 1..c |-> MeanOf(Row(f, i))], f.graph),
         std  |-> Tensor(<<c>>, [i \in 1..c |-> StdOf(Row(f, i))], f.graph)]

(* an absent frequency bound (None), and a bound num/den *)
None == <<>>

Freq(num, den) == <<num, den>>

(* bin k of torch.fft.rfftfreq(n) is k/n: is it within [lower, upper]? *)
InBand(k, n, lower, upper) ==
    /\ lower = None \/ k * lower[2] >= lower[1] * n
    /\ upper = None \/ k * upper[2] <= upper[1] * n

(* the boolean mask over the n \div 2 + 1 bins of rfftfreq(n) *)
BandKernel(n, lower, upper) ==
    Eager([b \in 1..((n \div 2) + 1) |-> InBand(b - 1, n, lower, upper)])

(* A list through the band filter: its zero-frequency part (the mean), its *)
(* part at the highest frequency (n even) and the rest, which the bins in  *)
(* between carry together; each part is kept when its bins are selected.   *)
(* Exact for n <= 4, where at most one bin lies in between.                *)
FilterLane(s, kernel) ==
    LET n == Len(s)
        sign(i) == IF i % 2 = 1 THEN 1 ELSE -1
        mid == 1..((n - 1) \div 2)
        Parts(dc, ny, keepDc, keepNy, keepMid) ==
            Eager([i \in 1..n |->
                (IF keepDc THEN dc ELSE 0)
              + (IF keepNy THEN ny * sign(i) ELSE 0)
              + (IF keepMid THEN s[i] - dc - ny * sign(i) ELSE 0)])
    IN  IF \E i \in 1..n : s[i] = NaN THEN [i \in 1..n |-> NaN]
        ELSE Parts(MeanOf(s),
                   IF n % 2 = 0
                   THEN fDivInt(fSum(Eager([i \in 1..n |-> fMulInt(s[i], sign(i))])), n)
                   ELSE 0,
                   kernel[1],
                   n % 2 = 0 /\ kernel[(n \div 2) + 1],
                   mid # {} /\ \A k \in mid : kernel[k + 1])

(* the band filter along axis d (0-based) of a tensor *)
FilterAxis(x, d, lower, upper) ==
    LET Gather(s, n, lanes) ==
            [x EXCEPT !.data =
                Eager([i \in 1..Numel(x.shape) |->
                    lanes[(((i - 1) \div (n * s)) * s) + ((i - 1) % s) + 1]
                         [(((i - 1) \div s) % n) + 1]])]
        Filtered(n, kernel) ==
            Gather(Stride(x.shape, d + 1), n,
                   Eager([j \in 1..(Numel(x.shape) \div n) |->
                            FilterLane(Lane(x, d, j - 1), kernel)]))
        Over(n) == Filtered(n, BandKernel(n, lower, upper))
    IN  Over(x.shape[d + 1])

(* filter(vector[C], lower?, upper?) -> vector[C] *)
fft_filter_1D(x, freq_lower, freq_upper) == FilterAxis(x, 0, freq_lower, freq_upper)

(* filter(vector[C], explicit boolean mask) -> vector[C] *)
fft_filter_1D_kernel(x, kernel) == [x EXCEPT !.data = FilterLane(x.data, kernel)]

(* the explicit mask must have one entry per bin of the vector *)
KernelFits(x, kernel) == Len(kernel) = (x.shape[1] \div 2) + 1

(* filter(tensor[C,H,W] or [C,N], lower?, upper?) -> same shape: the band  *)
(* filter along each of the last two axes                                  *)
fft_filter_2D(x, freq_lower, freq_upper) ==
    LET r == Len(x.shape)
    IN  FilterAxis(FilterAxis(x, r - 1, freq_lower, freq_upper), r - 2, freq_lower, freq_upper)

(* loss(normalized_input[C,N], ordered_per_channel, quantiles_per_channel) *)
(* -> scalar: an uninterpreted value of its arguments                      *)
histogram_loss(f, style_ordered, style_quantiles) ==
    Scalar([op |-> "histogram_loss", input |-> f.data,
            ordered |-> [i \in 1..Len(style_ordered) |-> style_ordered[i].data],
            quantiles |-> [i \in 1..Len(style_quantiles) |-> style_quantiles[i].data]],
           f.graph \cup UNION {style_ordered[i].graph : i \in 1..Len(style_ordered)}
                   \cup UNION {style_quantiles[i].graph : i \in 1..Len(style_quantiles)})

(* one pair of ordered/quantile sequences per channel of the input *)
HistogramFits(f, style_ordered) == Len(style_ordered) = f.shape[1]

(* mean_square_distance(C, target[N,C], input[N,C]) -> scalar: the mean    *)
(* over all pairs of rows of the squared distance between them             *)
mean_square_distance(c, t, x) ==
    LET Distance(a, b) == fSum(Eager([d \in 1..c |-> Sq(fSub(a[d], b[d]))]))
        Pairs(nt, nx, rt, rx) ==
            fDivInt(fSum(Eager([q \in 1..(nt * nx) |->
                                  Distance(rt[((q - 1) \div nx) + 1], rx[((q - 1) % nx) + 1])])),
                    nt * nx)
    IN  Pairs(t.shape[1], x.shape[1],
              Eager([i \in 1..t.shape[1] |-> Row(t, i)]),
              Eager([i \in 1..x.shape[1] |-> Row(x, i)]))

(* kernel_mean(kernel, bandwidth_param, target[N,C], input[N,C]) -> scalar: *)
(* an uninterpreted value of its arguments                                  *)
kernel_mean(kernel, p, t, x) ==
    Scalar([op |-> "kernel_mean", kernel |-> kernel, p |-> p,
            target |-> t.data, input |-> x.data, rows |-> <<t.shape[1], x.shape[1]>>],
           t.graph \cup x.graph)

(* rows of target and input are points of the same C-dimensional space *)
KernelFits2(c, t, x) == t.shape[2] = c /\ x.shape[2] = c

(* kernels[k_name][c] *)
kernels(k_name, c) == <<k_name, c>>

(* ------------------------------ helpers -------------------------------- *)
(* a Python attribute or local that may not be set: <<>> or <<value>> *)
Unset == <<>>

Set(v) == <<v>>

(* a Python dict *)
EmptyDict == [k \in {} |-> 0]

Put(d, k, v) == Eager([x \in (DOMAIN d) \cup {k} |-> IF x = k THEN v ELSE d[x]])

OK == ""

(* the sorted list of the distinct values of a list (Tensor.unique, sorted) *)
RECURSIVE SortSet(_)
SortSet(S) == IF S = {} THEN <<>>
              ELSE LET m == CHOOSE v \in S : \A u \in S : v <= u
                   IN  <<m>> \o SortSet(S \ {m})

(* (feature - min) / (eps + max - min), row by row *)
normalize(f) ==
    LET Scaled(v, lo, hi) == fDiv(fSub(v, lo), fSub(fAdd(eps, hi), lo))
        Between(n, lo, hi) ==
            [f EXCEPT !.data =
                Eager([q \in 1..Numel(f.shape) |->
                    Scaled(f.data[q], lo[((q - 1) \div n) + 1], hi[((q - 1) \div n) + 1])])]
    IN  Between(f.shape[2],
                Eager([i \in 1..f.shape[1] |-> SeqMin(Row(f, i))]),
                Eager([i \in 1..f.shape[1] |-> SeqMax(Row(f, i))]))

(* Tensor.transpose(0, 1).contiguous() of a matrix *)
transpose(f) ==
    LET c == f.shape[1]
        n == f.shape[2]
    IN  Tensor(<<n, c>>,
               [q \in 1..(n * c) |-> f.data[(((q - 1) % c) * n) + ((q - 1) \div c) + 1]],
               f.graph)

(* ---------------------------- ContentLoss ------------------------------ *)
ContentLoss_init(target_content) ==
    [class |-> "ContentLoss", target_content |-> detach(target_content)]

(* forward: [error, loss]; the caller gets input back when error is OK *)
ContentLoss_run(self, input) ==
    IF ~Broadcastable(input.shape, self.target_content.shape)
    THEN [error |-> "ShapeMismatch", loss |-> Unset]
    ELSE [error |-> OK, loss |-> Set(mse_loss(input, self.target_content))]

(* ------------------------------ GetMask -------------------------------- *)
GetMask_mask(input) == Set(detach(input))

(* ----------------------------- StyleLoss ------------------------------- *)
Kinds == {"gram", "bnst", "morest", "histo", "linear", "poly", "rbf"}

KernelKinds == <<"linear", "poly", "rbf">>

(* kernel names without the test on style_loss_types *)
KernelNamesAll(style_loss_types) == KernelKinds

(* kernel names and weights: the requested ones among linear, poly, rbf, in that order *)
KernelNames(style_loss_types) == SelectSeq(KernelKinds, LAMBDA name : name \in style_loss_types)

(* histogram targets: per channel, the ordered distinct values and their quantiles *)
HistoOrdered(row) == Tensor(<<Cardinality({row[i] : i \in 1..Len(row)})>>,
                            SortSet({row[i] : i \in 1..Len(row)}), {})

HistoQuantiles(row) ==
    LET Quantiles(n, cumsum) == Tensor(<<n>>, [j \in 1..n |-> fDiv(cumsum[j], cumsum[n])], {})
        Cumsum(n, counts) ==
            Quantiles(n, Eager([j \in 1..n |-> fSum(SubSeq(counts, 1, j)) * Scale]))
        Counts(ordered) ==
            Cumsum(Len(ordered),
                   Eager([j \in 1..Len(ordered) |->
                            Cardinality({i \in 1..Len(row) : row[i] = ordered[j]})]))
    IN  Counts(SortSet({row[i] : i \in 1..Len(row)}))

(* the gram target with the level 3 filter applied from level 3 upwards *)
target_gram_matrix_from_level_3(style_feature, fft_level, freq_lower, freq_upper) ==
    LET gram == detach(gram_matrix(style_feature))
    IN  IF fft_level >= 3 THEN fft_filter_2D(gram, freq_lower, freq_upper) ELSE gram

(* gram matrix, FFT filter on level 3 feature *)
target_gram_matrix(style_feature, fft_level, freq_lower, freq_upper) ==
    LET gram == detach(gram_matrix(style_feature))
    IN  IF fft_level = 3 THEN fft_filter_2D(gram, freq_lower, freq_upper) ELSE gram

StyleLoss_init(target_style0, style_loss_types, masking, fft_level, freq_lower, freq_upper) ==
    LET c == target_style0.shape[1]
        h == target_style0.shape[2]
        w == target_style0.shape[3]
        use_gram   == "gram" \in style_loss_types
        use_bnst   == "bnst" \in style_loss_types
        use_morest == "morest" \in style_loss_types
        use_histo  == "histo" \in style_loss_types
        use_kernel == "linear" \in style_loss_types \/ "poly" \in style_loss_types
                      \/ "rbf" \in style_loss_types
        Targets(target_style, style_feature, bn, normalized) ==
        [class |-> "StyleLoss",
         masking |-> masking,
         use_gram |-> use_gram, use_bnst |-> use_bnst, use_morest |-> use_morest,
         use_histo |-> use_histo, use_kernel |-> use_kernel,
         target_gram_matrix |->
            IF use_gram
            THEN Set(target_gram_matrix(style_feature, fft_level, freq_lower, freq_upper))
            ELSE Unset,
         target_mean |->
            IF ~use_bnst THEN Unset
            ELSE IF fft_level = 4 THEN Set(fft_filter_1D(detach(bn.mean), freq_lower, freq_upper))
            ELSE Set(detach(bn.mean)),
         target_std |->
            IF ~use_bnst THEN Unset
            ELSE IF fft_level = 4 THEN Set(fft_filter_1D(detach(bn.std), freq_lower, freq_upper))
            ELSE Set(detach(bn.std)),
         target_c_std |-> IF use_morest THEN Set(std(target_style, 0)) ELSE Unset,
         target_h_std |-> IF use_morest THEN Set(std(target_style, 1)) ELSE Unset,
         target_w_std |-> IF use_morest THEN Set(std(target_style, 2)) ELSE Unset,
         style_ordered |->
            IF use_histo THEN Set([i \in 1..c |-> HistoOrdered(Row(normalized, i))]) ELSE Unset,
         style_quantiles |->
            IF use_histo THEN Set([i \in 1..c |-> HistoQuantiles(Row(normalized, i))]) ELSE Unset,
         transposed_style |-> IF use_kernel THEN Set(detach(transpose(style_feature))) ELSE Unset,
         kernel_names |-> IF use_kernel THEN Set(KernelNames(style_loss_types)) ELSE Unset,
         \* the arguments of the construction, kept to state the claims
         args |-> [target_style |-> target_style0, style_loss_types |-> style_loss_types,
                   fft_level |-> fft_level, freq_lower |-> freq_lower, freq_upper |-> freq_upper]]
        Flattened(target_style, style_feature) ==
            Targets(target_style, style_feature, BN_mean_and_std(style_feature),
                    normalize(style_feature))
        \* flattened view of style feature, FFT filter on level 2 feature
        Filtered(target_style) ==
            Flattened(target_style,
                      IF fft_level = 2
                      THEN fft_filter_2D(view(target_style, <<c, h * w>>), freq_lower, freq_upper)
                      ELSE view(target_style, <<c, h * w>>))
        \* FFT filter on level 1 feature
    IN  Filtered(IF fft_level = 1
                 THEN fft_filter_2D(target_style0, freq_lower, freq_upper)
                 ELSE target_style0)

(* the requested loss kinds of a StyleLoss: the keys of style_loss_types it knows *)
Enabled(self) == self.args.style_loss_types \cap Kinds

Raise(st, error) == [st EXCEPT !.error = error]

(* the feature with the masking flag ignored *)
input_unmasked(self, m, input) == input

(* masking feature *)
input_masked(self, m, input) == IF self.masking THEN mul(input, m[1]) ELSE input

(* gram matrix loss *)
gram_loss(self, f) == mse_loss(gram_matrix(f), self.target_gram_matrix[1])

StyleLoss_gram(self, f, st) ==
    IF st.error # OK \/ ~self.use_gram THEN st
    ELSE IF ~Broadcastable(<<f.shape[1], f.shape[1]>>, self.target_gram_matrix[1].shape)
    THEN Raise(st, "ShapeMismatch")
    ELSE [st EXCEPT !.losses = Put(@, "gram", gram_loss(self, f))]

(* BN mean and std loss *)
bnst_loss(self, f) ==
    LET Sum(mean_loss, std_loss) ==
            Scalar(fAdd(mean_loss.data[1], std_loss.data[1]),
                   mean_loss.graph \cup std_loss.graph)
        Of(bn) == Sum(mse_loss(bn.mean, self.target_mean[1]),
                      mse_loss(bn.std, self.target_std[1]))
    IN  Of(BN_mean_and_std(f))

StyleLoss_bnst(self, f, st) ==
    IF st.error # OK \/ ~self.use_bnst THEN st
    ELSE IF ~Broadcastable(<<f.shape[1]>>, self.target_mean[1].shape)
            \/ ~Broadcastable(<<f.shape[1]>>, self.target_std[1].shape)
    THEN Raise(st, "ShapeMismatch")
    ELSE [st EXCEPT !.losses = Put(@, "bnst", bnst_loss(self, f))]

(* loss based on more statistics *)
morest_loss(self, input_feature_m) ==
    LET Sum(c_loss, h_loss, w_loss) ==
            Scalar(fAdd(fAdd(h_loss.data[1], w_loss.data[1]), c_loss.data[1]),
                   c_loss.graph \cup h_loss.graph \cup w_loss.graph)
    IN  Sum(mse_loss(self.target_c_std[1], std(input_feature_m, 0)),
            mse_loss(self.target_h_std[1], std(input_feature_m, 1)),
            mse_loss(self.target_w_std[1], std(input_feature_m, 2)))

StyleLoss_morest(self, chw, f, st) ==
    IF st.error # OK \/ ~self.use_morest THEN st
    ELSE IF \E d \in 0..2 :
                ~Broadcastable(<<self.target_c_std[1], self.target_h_std[1],
                                 self.target_w_std[1]>>[d + 1].shape,
                               DropAxis(chw, d))
    THEN Raise(st, "ShapeMismatch")
    ELSE [st EXCEPT !.losses = Put(@, "morest", morest_loss(self, view(f, chw)))]

(* histogram loss *)
histo_loss(self, f) == histogram_loss(normalize(f), self.style_ordered[1], self.style_quantiles[1])

StyleLoss_histo(self, f, st) ==
    IF st.error # OK \/ ~self.use_histo THEN st
    ELSE IF ~HistogramFits(f, self.style_ordered[1]) THEN Raise(st, "ShapeMismatch")
    ELSE [st EXCEPT !.losses = Put(@, "histo", histo_loss(self, f))]

(* the rbf parameter from the stored target alone, as a construction-time  *)
(* value would be: the inverse of the mean squared norm of its rows        *)
kernel_p_of_target(self, k_name, c, tranposed_input) ==
    IF k_name # "rbf" THEN 0
    ELSE LET t == self.transposed_style[1]
         IN  fDiv(Scale, fDivInt(fSum([i \in 1..t.shape[1] |->
                                         fSum([d \in 1..c |-> Sq(Row(t, i)[d])])]),
                                 t.shape[1]))

(* the parameter p of a kernel: 0, and for rbf the inverse of the mean     *)
(* square distance between the stored target and this input                *)
kernel_p(self, k_name, c, tranposed_input) ==
    IF k_name # "rbf" THEN 0
    ELSE fDiv(Scale, mean_square_distance(c, self.transposed_style[1], tranposed_input))

kernel_loss(self, k_name, c, p, tranposed_input) ==
    LET Normalized(km) == Scalar([op |-> "div", num |-> km.data[1], den |-> c * c], km.graph)
    IN  Normalized(kernel_mean(kernels(k_name, c), p, self.transposed_style[1], tranposed_input))

(* kernel loss, one kernel name after the other *)
RECURSIVE StyleLoss_kernels(_, _, _, _, _)
StyleLoss_kernels(self, names, c, tranposed_input, st) ==
    IF st.error # OK \/ names = <<>> THEN st
    ELSE IF ~KernelFits2(c, self.transposed_style[1], tranposed_input)
    THEN Raise(st, "ShapeMismatch")
    ELSE LET With(p) ==
                StyleLoss_kernels(self, Tail(names), c, tranposed_input,
                    [st EXCEPT !.losses = Put(@, Head(names),
                                              kernel_loss(self, Head(names), c, p, tranposed_input)),
                               !.p = IF Head(names) = "rbf" THEN Set(p) ELSE @])
         IN  With(kernel_p(self, Head(names), c, tranposed_input))

StyleLoss_kernel(self, c, f, st) ==
    IF st.error # OK \/ ~self.use_kernel THEN st
    ELSE StyleLoss_kernels(self, self.kernel_names[1], c, transpose(f), st)

(* StyleLoss.forward: [error, assigned, losses, locals]; assigned says that *)
(* self.losses was bound by the call, losses is what it is bound to then,   *)
(* locals are the call's input_feature and rbf parameter p                  *)
StyleLoss_run(self, m, input) ==
    LET c == input.shape[1]
        h == input.shape[2]
        w == input.shape[3]
        early(error) == [error |-> error, assigned |-> FALSE, losses |-> EmptyDict,
                         locals |-> [input_feature |-> Unset, p |-> Unset]]
    IN  IF self.masking /\ m = Unset THEN early("AttributeError")
        ELSE IF self.masking /\ ~Broadcastable(input.shape, m[1].shape) THEN early("ShapeMismatch")
        ELSE LET st0 == [error |-> OK, losses |-> EmptyDict, p |-> Unset]
                 Outcome(f, st) ==
                    [error |-> st.error, assigned |-> TRUE, losses |-> st.losses,
                     locals |-> [input_feature |-> Set(f), p |-> st.p]]
                 Losses(f) ==
                    Outcome(f, StyleLoss_kernel(self, c, f,
                                 StyleLoss_histo(self, f,
                                   StyleLoss_morest(self, <<c, h, w>>, f,
                                     StyleLoss_bnst(self, f,
                                       StyleLoss_gram(self, f, st0))))))
                 Viewed(masked) ==
                    IF Numel(masked.shape) # c * h * w THEN early("ShapeMismatch")
                    ELSE Losses(view(masked, <<c, h * w>>))
             IN  Viewed(input_masked(self, m, input))

(* ------------------------- StyleLossOpsOnBNST -------------------------- *)
(* x[indices], indices a list of 0-based positions *)
Index(x, indices) ==
    Tensor(<<Len(indices)>>, [i \in 1..Len(indices) |-> x.data[indices[i] + 1]], x.graph)

IndexFits(x, indices) == \A i \in 1..Len(indices) : indices[i] < x.shape[1]

(* 0 += fft_filter_1D(x, lower, upper) for every (lower, upper) of freqs *)
RECURSIVE SumFiltered(_, _)
SumFiltered(x, freqs) ==
    IF freqs = <<>> THEN [x EXCEPT !.data = Eager([i \in 1..Len(x.data) |-> 0])]
    ELSE LET Plus(rest, one) ==
                [x EXCEPT !.data = Eager([i \in 1..Len(x.data) |-> fAdd(rest.data[i], one.data[i])])]
         IN  Plus(SumFiltered(x, Tail(freqs)), fft_filter_1D(x, Head(freqs)[1], Head(freqs)[2]))

(* affine transformation: x --> x * x_coef + x_bias *)
Affine(x, coef, bias) ==
    [x EXCEPT !.data = Eager([i \in 1..Len(x.data) |-> fAdd(fMul(x.data[i], coef), bias)])]

StyleLossOpsOnBNST_init(target_style, indices, mean_coef, mean_bias, std_coef, std_bias, mean_freq, std_freq) ==
    LET c == target_style.shape[1]
        h == target_style.shape[2]
        w == target_style.shape[3]
        Targets(bn) ==
            [class |-> "StyleLossOpsOnBNST",
             target_mean |-> detach(bn.mean),
             target_std |-> detach(bn.std),
             target_mean_filtered |->
                Affine(SumFiltered(detach(bn.mean), mean_freq), mean_coef, mean_bias),
             target_std_filtered |->
                Affine(SumFiltered(detach(bn.std), std_freq), std_coef, std_bias),
             indices |-> indices,
             args |-> [target_style |-> target_style]]
    IN  Targets(BN_mean_and_std(view(target_style, <<c, h * w>>)))

(* StyleLossOpsOnBNST.forward: [error, assigned, losses] *)
StyleLossOpsOnBNST_run(self, input) ==
    LET c == input.shape[1]
        h == input.shape[2]
        w == input.shape[3]
        fail(error) == [error |-> error, assigned |-> FALSE, losses |-> EmptyDict]
        done(a, ta, b, tb) ==
            [error |-> OK, assigned |-> TRUE,
             losses |-> Put(Put(EmptyDict, "mean_loss", mse_loss(a, ta)), "std_loss", mse_loss(b, tb))]
        Of(bn) ==
            IF self.indices = None
            THEN IF ~Broadcastable(bn.mean.shape, self.target_mean_filtered.shape)
                 THEN fail("ShapeMismatch")
                 ELSE done(bn.mean, self.target_mean_filtered, bn.std, self.target_std_filtered)
            ELSE IF ~IndexFits(bn.mean, self.indices)
                    \/ ~IndexFits(self.target_mean_filtered, self.indices)
                 THEN fail("IndexError")
                 ELSE done(Index(bn.mean, self.indices), Index(self.target_mean_filtered, self.indices),
                           Index(bn.std, self.indices), Index(self.target_std_filtered, self.indices))
    IN  Of(BN_mean_and_std(view(input, <<c, h * w>>)))

(* ------------------------ StyleLossAmplifyFreq ------------------------- *)
(* FFT filter kernel: the boolean mask over freq = abs(rfftfreq(c)) *)
AmplifyKernel(c, amplify_freq) ==
    Eager([b \in 1..((c \div 2) + 1) |->
        IF amplify_freq[1] = None /\ amplify_freq[2] = None
        THEN (b - 1) <= 0                                     \* fake value
        ELSE IF amplify_freq[1] = None
        THEN InBand(b - 1, c, None, amplify_freq[2])
        ELSE IF amplify_freq[2] = None
        THEN InBand(b - 1, c, amplify_freq[1], None)
        ELSE InBand(b - 1, c, None, amplify_freq[2]) /\ InBand(b - 1, c, amplify_freq[1], None)])

(* the weight without the test on the bounds *)
AmplifyWeightAlways(amplify_freq, amplify_weight) == amplify_weight

AmplifyWeight(amplify_freq, amplify_weight) ==
    IF amplify_freq # <<None, None>> THEN amplify_weight ELSE 0

StyleLossAmplifyFreq_init(target_style, sep_input_freq, amplify_freq, amplify_weight) ==
    LET c == target_style.shape[1]
        h == target_style.shape[2]
        w == target_style.shape[3]
        Targets(bn, kernel) ==
            [class |-> "StyleLossAmplifyFreq",
             target_mean |-> detach(bn.mean),
             target_std |-> detach(bn.std),
             kernel |-> kernel,
             target_std_filtered |-> detach(fft_filter_1D_kernel(detach(bn.std), kernel)),
             sep_input_freq |-> sep_input_freq,
             amplify_weight |-> AmplifyWeight(amplify_freq, amplify_weight),
             args |-> [target_style |-> target_style, amplify_freq |-> amplify_freq,
                       amplify_weight |-> amplify_weight]]
    IN  Targets(BN_mean_and_std(view(target_style, <<c, h * w>>)),
                AmplifyKernel(c, amplify_freq))

(* StyleLossAmplifyFreq.forward: [error, assigned, losses] *)
StyleLossAmplifyFreq_run(self, input) ==
    LET c == input.shape[1]
        h == input.shape[2]
        w == input.shape[3]
        fail(error) == [error |-> error, assigned |-> FALSE, losses |-> EmptyDict]
        Sum(mean_loss, std_loss, std_filtered_loss) ==
            [error |-> OK, assigned |-> TRUE,
             losses |-> Put(Put(EmptyDict, "mean_loss", mean_loss), "std_loss",
                            Scalar(fAdd(std_loss.data[1],
                                        fMulInt(std_filtered_loss.data[1], self.amplify_weight)),
                                   std_loss.graph \cup std_filtered_loss.graph))]
        Of(bn) ==
            IF ~KernelFits(bn.std, self.kernel) THEN fail("ShapeMismatch")
            ELSE IF ~Broadcastable(bn.mean.shape, self.target_mean.shape) THEN fail("ShapeMismatch")
            ELSE Sum(mse_loss(bn.mean, self.target_mean),
                     mse_loss(bn.std, self.target_std),
                     IF self.sep_input_freq
                     THEN mse_loss(fft_filter_1D_kernel(bn.std, self.kernel),
                                   self.target_std_filtered)
                     ELSE mse_loss(bn.std, self.target_std_filtered))
    IN  Of(BN_mean_and_std(view(input, <<c, h * w>>)))

(* ------------------------- the bounded inputs -------------------------- *)
(* element i of pattern p: all twos (p = 0), or i modulo p + 1 *)
Pat(p, i) == IF p = 0 THEN 2 ELSE i % (p + 1)

(* one channel or MaxC, height MaxH, width MaxW - 1 or MaxW *)
Shapes == {<<c, MaxH, w>> : c \in {1, MaxC}, w \in {MaxW - 1, MaxW}}

Catalogue(graph) ==
    {Tensor(s, [i \in 1..Numel(s) |-> Pat(p, i) * Scale], graph) : s \in Shapes, p \in {0, MaxPat}}

(* forward inputs belong to the candidate image's graph, the reference *)
(* feature maps to the graph that produced the reference               *)
Inputs == Catalogue({"input"})

References ==
    {Tensor(s, [i \in 1..Numel(s) |-> Pat(p, i) * Scale], {"reference"}) : s \in Shapes, p \in {MaxPat}}

(* what the mask layer is fed: single-channel and full maps of zeros and  *)
(* ones, zero where pattern 1 is not                                      *)
Masks ==
    {Tensor(s, [i \in 1..Numel(s) |-> (1 - Pat(1, i)) * Scale], {"input"}) :
        s \in {<<1, MaxH, MaxW - 1>>, <<1, MaxH, MaxW>>, <<MaxC, MaxH, MaxW - 1>>}}

(* frequency bands: (lower, upper), either may be absent *)
Bands == {<<None, None>>, <<None, Freq(0, 1)>>, <<Freq(1, 4), None>>}

(* style_loss_types with fft_level and its band: every kind alone, none,   *)
(* all and some pairs unfiltered; gram with bnst, and morest, at every     *)
(* fft_level and band; all kinds at every fft_level with a high-pass band  *)
StyleArgs ==
    {<<types, 0, None, None>> :
        types \in {{}, Kinds, {"gram", "morest"}, {"bnst", "morest"}, {"linear", "rbf"}}
                  \cup {{k} : k \in Kinds}}
    \cup {<<types, l, b[1], b[2]>> :
            types \in {{"gram", "bnst"}, {"morest"}}, l \in 1..4, b \in Bands}
    \cup {<<Kinds, l, Freq(1, 4), None>> : l \in 1..4}

AmplifyFreqs == Bands \cup {<<Freq(0, 1), Freq(1, 2)>>}

AmplifyWeights == {10}

OpsArgs == {<<None, Scale, 0, Scale, 0, <<<<None, None>>>>, <<<<None, None>>>>>>,
            <<<<0>>, Scale, 0, 2 * Scale, Scale, <<<<None, Freq(0, 1)>>>>, <<<<None, None>>>>>>,
            <<<<0, 1>>, 0, Scale, Scale, 0, <<<<None, Freq(0, 1)>>, <<Freq(1, 4), None>>>>,
              <<<<Freq(1, 4), None>>>>>>}

(* ------------------------------ actions -------------------------------- *)
NoLocals == [input_feature |-> Unset, p |-> Unset]

Call(name, input, error, assigned, locals, output) ==
    [call |-> name, input |-> Set(input), error |-> error, assigned |-> assigned,
     locals |-> locals, output |-> IF error = OK THEN Set(output) ELSE Unset]

(* a forward that hands on the flattened feature it worked on *)
forward_return_flat(input) == view(input, <<input.shape[1], input.shape[2] * input.shape[3]>>)

(* what forward returns *)
forward_return(input) == input

(* a forward that rebinds the content target to what it was fed *)
self_after_forward_rebound(self, input) ==
    IF self.class = "ContentLoss" THEN [self EXCEPT !.target_content = detach(input)] ELSE self

(* the attributes of a loss layer other than loss and losses, after forward *)
self_after_forward(self, input) == self

(* nothing was called yet *)
Start ==
    /\ mask = Unset
    /\ loss = Unset
    /\ losses = Unset
    /\ ret = [call |-> "init", input |-> Unset, error |-> OK, assigned |-> FALSE,
              locals |-> NoLocals, output |-> Unset]

Init ==
    /\ \E target \in References :
          \/ layer = ContentLoss_init(target)
          \/ \E a \in StyleArgs, masking \in BOOLEAN :
                layer = StyleLoss_init(target, a[1], masking, a[2], a[3], a[4])
          \/ \E a \in OpsArgs :
                layer = StyleLossOpsOnBNST_init(target, a[1], a[2], a[3], a[4], a[5], a[6], a[7])
          \/ \E sep \in BOOLEAN, freq \in AmplifyFreqs, weight \in AmplifyWeights :
                layer = StyleLossAmplifyFreq_init(target, sep, freq, weight)
    /\ Start

(* a StyleLoss without masking, for every set of loss kinds *)
InitKinds ==
    /\ \E target \in References, types \in SUBSET Kinds :
          layer = StyleLoss_init(target, types, FALSE, 0, None, None)
    /\ Start

GetMask_forward ==
    /\ \E input \in Masks :
        /\ mask' = GetMask_mask(input)
        /\ ret' = Call("GetMask.forward", input, OK, FALSE, NoLocals, forward_return(input))
        /\ UNCHANGED <<layer, loss, losses>>

ContentLoss_forward ==
    /\ layer.class = "ContentLoss"
    /\ \E input \in Inputs :
        LET Outcome(r) ==
                /\ loss' = IF r.error = OK THEN r.loss ELSE loss
                /\ layer' = self_after_forward(layer, input)
                /\ ret' = Call("ContentLoss.forward", input, r.error, r.error = OK, NoLocals,
                               forward_return(input))
                /\ UNCHANGED <<mask, losses>>
        IN  Outcome(ContentLoss_run(layer, input))

StyleLoss_forward ==
    /\ layer.class = "StyleLoss"
    /\ \E input \in Inputs :
        LET Outcome(r) ==
                /\ losses' = IF r.assigned THEN Set(r.losses) ELSE losses
                /\ layer' = self_after_forward(layer, input)
                /\ ret' = Call("StyleLoss.forward", input, r.error, r.assigned, r.locals,
                               forward_return(input))
                /\ UNCHANGED <<mask, loss>>
        IN  Outcome(StyleLoss_run(layer, mask, input))

StyleLossOpsOnBNST_forward ==
    /\ layer.class = "StyleLossOpsOnBNST"
    /\ \E input \in Inputs :
        LET Outcome(r) ==
                /\ losses' = IF r.assigned THEN Set(r.losses) ELSE losses
                /\ layer' = self_after_forward(layer, input)
                /\ ret' = Call("StyleLossOpsOnBNST.forward", input, r.error, r.assigned, NoLocals,
                               forward_return(input))
                /\ UNCHANGED <<mask, loss>>
        IN  Outcome(StyleLossOpsOnBNST_run(layer, input))

StyleLossAmplifyFreq_forward ==
    /\ layer.class = "StyleLossAmplifyFreq"
    /\ \E input \in Inputs :
        LET Outcome(r) ==
                /\ losses' = IF r.assigned THEN Set(r.losses) ELSE losses
                /\ layer' = self_after_forward(layer, input)
                /\ ret' = Call("StyleLossAmplifyFreq.forward", input, r.error, r.assigned, NoLocals,
                               forward_return(input))
                /\ UNCHANGED <<mask, loss>>
        IN  Outcome(StyleLossAmplifyFreq_run(layer, input))

Next ==
    \/ GetMask_forward
    \/ ContentLoss_forward
    \/ StyleLoss_forward
    \/ StyleLossOpsOnBNST_forward
    \/ StyleLossAmplifyFreq_forward

Spec == Init /\ [][Next]_vars

NextKinds == StyleLoss_forward

SpecKinds == InitKinds /\ [][NextKinds]_vars

(* ------------------------------ claims --------------------------------- *)
(* the last call was this forward and it returned *)
Completed(name) == ret.call = name /\ ret.error = OK

(* two tensors of the same shape and values *)
SameValues(x, y) == x.shape = y.shape /\ x.data = y.data

(* the flattened feature StyleLoss.forward works on: (c, h * w) *)
Flat(x) == view(x, <<x.shape[1], x.shape[2] * x.shape[3]>>)

(* C1: whenever a forward of any of the five layers completes, what it     *)
(* returns is its input, unchanged                                         *)
C1_PassThrough == (ret.call # "init" /\ ret.error = OK) => ret.output = ret.input

C1_Witness ==
    /\ Completed("StyleLoss.forward")
    /\ layer.masking
    /\ Enabled(layer) # {}

(* the tensors a StyleLoss stores as targets *)
StoredTargets(self) ==
    UNION {IF self[a] = Unset THEN {} ELSE {self[a][1]} :
              a \in {"target_gram_matrix", "target_mean", "target_std", "target_c_std",
                     "target_h_std", "target_w_std", "transposed_style"}}
    \cup UNION {IF self[a] = Unset THEN {} ELSE {self[a][1][i] : i \in 1..Len(self[a][1])} :
                   a \in {"style_ordered", "style_quantiles"}}

(* C2: every target a StyleLoss stores is detached from the graph of the   *)
(* reference it was computed from                                          *)
C2_TargetsDetached ==
    layer.class = "StyleLoss" => \A t \in StoredTargets(layer) : t.graph = {}

(* C3: after a StyleLoss.forward that completes, losses is a mapping whose *)
(* keys are exactly the enabled loss kinds and whose values are the losses *)
(* of this call's input against the stored targets                         *)
C3_FreshLosses ==
    Completed("StyleLoss.forward") =>
        /\ ret.assigned
        /\ losses # Unset
        /\ LET Of(d, input, c, f, t) ==
                   /\ DOMAIN d = Enabled(layer)
                   /\ "gram" \in DOMAIN d => d["gram"] = gram_loss(layer, f)
                   /\ "bnst" \in DOMAIN d => d["bnst"] = bnst_loss(layer, f)
                   /\ "morest" \in DOMAIN d =>
                         d["morest"] = morest_loss(layer, view(f, input.shape))
                   /\ "histo" \in DOMAIN d => d["histo"] = histo_loss(layer, f)
                   /\ \A k \in DOMAIN d \cap {"linear", "poly", "rbf"} :
                         d[k] = kernel_loss(layer, k, c, kernel_p(layer, k, c, t), t)
               From(input, f) == Of(losses[1], input, input.shape[1], f, transpose(f))
           IN  From(ret.input[1], Flat(input_masked(layer, mask, ret.input[1])))

C3_Witness ==
    /\ Completed("StyleLoss.forward")
    /\ Enabled(layer) = Kinds
    /\ ~SameValues(ret.input[1], layer.args.target_style)

(* a StyleLoss with gram enabled completed forward on its own reference *)
SelfMatch ==
    /\ Completed("StyleLoss.forward")
    /\ layer.use_gram
    /\ SameValues(ret.input[1], layer.args.target_style)

(* C4, as stated: on its own reference the gram loss is exactly 0,         *)
(* whatever the fft_level, the frequency bounds and the masking flag       *)
C4_GramSelfMatch == SelfMatch => losses[1]["gram"].data[1] = 0

(* C4, as the code has it: on its own reference the gram loss is exactly 0 *)
(* when masking is off and fft_level is 0 or 4, the levels that leave the  *)
(* gram target unfiltered                                                  *)
C4_GramSelfMatchUnfiltered ==
    (SelfMatch /\ ~layer.masking /\ layer.args.fft_level \in {0, 4})
        => losses[1]["gram"].data[1] = 0

C4_Witness ==
    /\ SelfMatch
    /\ ~layer.masking
    /\ layer.args.fft_level = 4
    /\ layer.args.freq_lower # None

(* a StyleLossAmplifyFreq made with both amplify-frequency bounds absent *)
NoBand == layer.class = "StyleLossAmplifyFreq" /\ layer.args.amplify_freq = <<None, None>>

(* std_loss of the last call is the MSE of the input std and the unfiltered target std *)
PlainStdLoss ==
    Completed("StyleLossAmplifyFreq.forward") =>
        losses[1]["std_loss"].data =
            mse_loss(BN_mean_and_std(Flat(ret.input[1])).std, layer.target_std).data

C6_ChannelMismatchFails ==
    (/\ ret.call = "StyleLoss.forward"
     /\ Enabled(layer) # {}
     /\ ret.input[1].shape[1] # layer.args.target_style.shape[1])
        => ret.error = "ShapeMismatch"

(* C7: a StyleLoss.forward that fails after binding losses leaves no       *)
(* dictionary with only some of the enabled kinds behind                   *)
C7_CompleteOrNothing ==
    (ret.call = "StyleLoss.forward" /\ ret.error # OK /\ ret.assigned)
        => DOMAIN losses[1] \in {{}, Enabled(layer)}

(* C8: GetMask.forward binds the mask to its detached input and no other   *)
(* forward changes the mask; a StyleLoss.forward with masking that         *)
(* completes found a mask and worked on its input times that mask          *)
C8_MaskOwnership ==
    [][/\ ret'.call = "GetMask.forward" => mask' = Set(detach(ret'.input[1]))
       /\ ret'.call # "GetMask.forward" => mask' = mask
       /\ (ret'.call = "StyleLoss.forward" /\ layer.masking /\ ret'.error = OK) =>
            /\ mask # Unset
            /\ ret'.locals.input_feature = Set(Flat(mul(ret'.input[1], mask[1])))]_vars

C8_Witness ==
    /\ Completed("StyleLoss.forward")
    /\ layer.masking
    /\ mask # Unset
    /\ \E i \in DOMAIN mask[1].data : mask[1].data[i] = 0
    /\ ret.locals.input_feature # Set(Flat(ret.input[1]))

(* C9: the rbf parameter of a StyleLoss.forward is the inverse of the mean *)
(* square distance between the stored transposed target and this call's    *)
(* transposed input, and losses['rbf'] is the kernel loss with it          *)
C9_RbfBandwidthPerCall ==
    (ret.call = "StyleLoss.forward" /\ ret.assigned /\ "rbf" \in DOMAIN losses[1]) =>
        LET With(c, t, p) ==
                /\ ret.locals.p = Set(p)
                /\ losses[1]["rbf"] = kernel_loss(layer, "rbf", c, p, t)
            Of(c, t) ==
                With(c, t, fDiv(Scale, mean_square_distance(c, layer.transposed_style[1], t)))
        IN  Of(ret.input[1].shape[1], transpose(ret.locals.input_feature[1]))

C9_Witness ==
    /\ Completed("StyleLoss.forward")
    /\ "rbf" \in DOMAIN losses[1]
    /\ ~SameValues(ret.input[1], layer.args.target_style)
    /\ ret.locals.p # Unset
    /\ ret.locals.p[1] \notin {NaN, Inf}

(* C10, as stated: no forward changes a stored target, and the mask, once  *)
(* there, is never changed                                                 *)
C10_Frozen == [][layer' = layer /\ (mask # Unset => mask' = mask)]_vars

(* C10, as the code has it: the mask is absent after construction; no      *)
(* forward changes a stored target, and the mask changes in                *)
(* GetMask.forward alone                                                   *)
C10_TargetsFrozen ==
    /\ [](ret.call = "init" => mask = Unset)
    /\ [][layer' = layer /\ (mask' # mask => ret'.call = "GetMask.forward")]_vars

C10_Witness ==
    /\ Completed("StyleLoss.forward")
    /\ ~layer.masking
    /\ ret.assigned
    /\ mask # Unset

====
